---- MODULE Spec2Model ----
(***************************************************************************)
(* A model of simplevc (src/simplevc/simplevc.py): one registered module   *)
(* with its implementation table (_method_dicts), its tool-metadata table  *)
(* (_tool_dicts), its active version (_version) and the dispatch proxies   *)
(* installed under the function base names.                                *)
(*                                                                         *)
(* Python strings are sequences of code points, so that the comparisons    *)
(* the code makes on version strings (str <, bisect, sorted) are computed  *)
(* as Python computes them and can differ from the (year, month, day)      *)
(* order of _compare_version.                                              *)
(***************************************************************************)
EXTENDS Integers, Sequences, FiniteSets, TLC

VARIABLES
    _method_dicts,   \* function_name -> (version -> func)
    _tool_dicts,     \* function_name -> (version -> tool metadata)
    _version,        \* the module's active version
    wrappers,        \* function_name -> metadata of the proxy set on the module
    lastOp,          \* the most recent operation on the module and its outcome
    resolveIn,       \* arguments of a direct call of _get_last_version
    resolveOut       \* what that call returned

vars == <<_method_dicts, _tool_dicts, _version, wrappers, lastOp, resolveIn, resolveOut>>

-----------------------------------------------------------------------------
(* Strings *)

\* Python's None: a one-element tuple that is no string (code points are >= 0).
None == <<-1>>

IsDigit(c) == c \in 48..57

\* The 8-character decimal string of a number yyyymmdd, e.g. "20200601".
Ver(n) == [i \in 1..8 |-> 48 + ((n \div (10 ^ (8 - i))) % 10)]

\* Python's str.__lt__: lexicographic by code point, a proper prefix is smaller.
RECURSIVE StrLess(_, _)
StrLess(a, b) ==
    IF b = <<>> THEN FALSE
    ELSE IF a = <<>> THEN TRUE
    ELSE IF a[1] # b[1] THEN a[1] < b[1]
    ELSE StrLess(Tail(a), Tail(b))

\* Python's s[r1:r2] for 0 <= r1 <= r2 (the end is clamped to len(s)).
Slice(s, r1, r2) ==
    LET hi == IF r2 < Len(s) THEN r2 ELSE Len(s)
    IN  IF r1 >= hi THEN <<>> ELSE SubSeq(s, r1 + 1, hi)

\* Whether int(s) returns for a string s of the kinds registered here: a
\* non-empty run of decimal digits.  (int() also accepts signs, blanks and
\* underscores; no string of the model contains them.)
IntParses(s) == s # <<>> /\ \A i \in 1..Len(s) : IsDigit(s[i])

\* int(s) for a string of decimal digits.
RECURSIVE int(_)
int(s) == IF s = <<>> THEN 0 ELSE 10 * int(SubSeq(s, 1, Len(s) - 1)) + (s[Len(s)] - 48)

\* sorted(S) of a set of distinct strings: ascending under str <.
RECURSIVE sorted(_)
sorted(S) ==
    IF S = {} THEN <<>>
    ELSE LET m == CHOOSE x \in S : \A y \in S : ~StrLess(y, x)
         IN  <<m>> \o sorted(S \ {m})

-----------------------------------------------------------------------------
(* Version comparison and resolution *)

_int_compare(a, b) == IF a < b THEN -1 ELSE IF a = b THEN 0 ELSE 1

\* _compare_version: the fields are compared in turn as integers and the loop
\* stops at the first that differs; int() raises ValueError on a field that is
\* not a number.  The result is [raised, value].
RECURSIVE CompareFields(_, _, _)
CompareFields(v1, v2, ranges) ==
    IF ranges = <<>> THEN [raised |-> FALSE, value |-> 0]
    ELSE LET s1 == Slice(v1, ranges[1][1], ranges[1][2])
             s2 == Slice(v2, ranges[1][1], ranges[1][2])
         IN  IF ~(IntParses(s1) /\ IntParses(s2)) THEN [raised |-> TRUE, value |-> 0]
             ELSE LET result == _int_compare(int(s1), int(s2))
                  IN  IF result # 0 THEN [raised |-> FALSE, value |-> result]
                      ELSE CompareFields(v1, v2, Tail(ranges))

_compare_version(v1, v2) == CompareFields(v1, v2, << <<0, 4>>, <<4, 6>>, <<6, 8>> >>)

\* Reports the latest registered version in place of the earliest.
get_latest_available_version(available_versions) == available_versions[Len(available_versions)]

_get_first_available_version(available_versions) == available_versions[1]

\* bisect.bisect_left: the insertion point before any equal element.
RECURSIVE bisect_left(_, _, _, _)
bisect_left(a, x, lo, hi) ==
    IF lo < hi
    THEN LET mid == (lo + hi) \div 2
         IN  IF StrLess(a[mid + 1], x) THEN bisect_left(a, x, mid + 1, hi)
             ELSE bisect_left(a, x, lo, mid)
    ELSE lo

\* bisect.bisect_right(a, x, lo, hi) of the standard library; lo and hi are
\* 0-based as in Python, a is indexed from 1.
RECURSIVE bisect_right(_, _, _, _)
bisect_right(a, x, lo, hi) ==
    IF lo < hi
    THEN LET mid == (lo + hi) \div 2
         IN  IF StrLess(x, a[mid + 1]) THEN bisect_right(a, x, lo, mid)
             ELSE bisect_right(a, x, mid + 1, hi)
    ELSE lo

\* A resolver that steps back one position too far when the requested version
\* is itself registered (bisect_left in place of bisect_right).
get_last_version_bisect_left(available_versions, version) ==
    LET idx == bisect_left(available_versions, version, 0, Len(available_versions)) - 1
    IN  IF idx < 0 THEN None ELSE available_versions[idx + 1]

_get_last_version(available_versions, version) ==
    LET idx == bisect_right(available_versions, version, 0, Len(available_versions)) - 1
    IN  IF idx < 0 THEN None ELSE available_versions[idx + 1]

-----------------------------------------------------------------------------
(* Functions of the hosting module *)

Underscore == 95

\* The name a function of the given base name and version suffix is defined
\* under: _<name>_<suffix>.
DefName(name, suffix) == <<Underscore>> \o name \o <<Underscore>> \o suffix

\* A function object: its __name__ and its __doc__.  body tells apart two
\* definitions of the same name.
Func(name, suffix, body) ==
    [__name__ |-> DefName(name, suffix),
     __doc__  |-> [kind |-> "docstring", of |-> DefName(name, suffix), body |-> body]]

\* s.rindex("_") + 1: the 1-based position of the last underscore (0 if none,
\* where Python raises ValueError).
rindex(s) ==
    LET P == {i \in 1..Len(s) : s[i] = Underscore}
    IN  IF P = {} THEN 0 ELSE CHOOSE i \in P : \A j \in P : j <= i

\* func.__name__[1:func.__name__.rindex("_")]
function_name_of(func) == Slice(func.__name__, 1, rindex(func.__name__) - 1)

\* func.__name__[func.__name__.rindex("_") + 1:]
version_of(func) == Slice(func.__name__, rindex(func.__name__), Len(func.__name__))

-----------------------------------------------------------------------------
(* The module's functions and the versions it is used with *)

f == <<102>>
g == <<103>>

abc == <<97, 98, 99>>          \* the suffix of _f_abc
y2020 == <<50, 48, 50, 48>>    \* the suffix of _g_2020

\* The functions the hosting module decorates with @vc.  _f_20200601 is defined
\* twice (the second definition replaces the first); _f_abc and _g_2020 carry
\* suffixes that are no dates.
ModuleFuncs ==
    { Func(f, Ver(20200601), 1), Func(f, Ver(20200601), 2), Func(f, Ver(20200721), 1),
      Func(g, Ver(20200801), 1), Func(f, abc, 1), Func(g, y2020, 1) }

\* date.today().strftime("%Y%m%d") when the module registers.
Today == Ver(20201201)

\* The versions set_version and the version= argument are given.
Versions ==
    { Ver(20200501), Ver(20200601), Ver(20200615), Ver(20200721), Ver(20200801), y2020 }

-----------------------------------------------------------------------------
(* Registry, proxies and dispatch *)

EmptyDict == <<>>

\* d[k] = v on a dict.
Put(d, k, v) == [x \in (DOMAIN d) \cup {k} |-> IF x = k THEN v ELSE d[x]]

\* functools.update_wrapper(wrapper, wrapped), for the attributes modelled.
update_wrapper(wrapper, wrapped) ==
    [wrapper EXCEPT !.__name__ = wrapped.__name__, !.__doc__ = wrapped.__doc__]

\* The f-string of the "not available" documentation and exception: the
\* function name, the version asked for and the first available version.
NotAvailable(function_name, version, first) ==
    [kind |-> "not available", function_name |-> function_name,
     version |-> version, first |-> first]

\* A refresh that leaves the documentation alone when no version resolves.
update_module_vc_without_notice(method_dict, wrapper, function_name, version) ==
    LET function_version == _get_last_version(sorted(DOMAIN method_dict), version)
        w == IF function_version # None
             THEN update_wrapper(wrapper, method_dict[function_version])
             ELSE wrapper
    IN  [w EXCEPT !.__name__ = function_name]

\* _update_module_vc, as a function of the name's method_dict and its wrapper.
_update_module_vc(method_dict, wrapper, function_name, version) ==
    LET function_version == _get_last_version(sorted(DOMAIN method_dict), version)
        w == IF function_version # None
             THEN update_wrapper(wrapper, method_dict[function_version])
             ELSE [wrapper EXCEPT !.__doc__ =
                     NotAvailable(function_name, version,
                                  _get_first_available_version(sorted(DOMAIN method_dict)))]
    IN  [w EXCEPT !.__name__ = function_name]

\* A dispatch that resolves at the active version even when the caller passes
\* version=.
run_method_ignoring_override(module_version, function_name, kwargs, version) ==
    LET method_dict == _method_dicts[function_name]
        rversion == _get_last_version(sorted(DOMAIN method_dict), module_version)
    IN  IF rversion = None
        THEN [returned |-> FALSE,
              exception |-> NotAvailable(function_name, module_version,
                               _get_first_available_version(sorted(DOMAIN method_dict)))]
        ELSE [returned |-> TRUE, called |-> method_dict[rversion], kwargs |-> kwargs]

\* The closure _run_method of a function name, called with keyword arguments
\* kwargs and version (None when the argument is omitted).
\* module_version is module._version as read when the call is made.
_run_method(module_version, function_name, kwargs, version) ==
    LET method_dict == _method_dicts[function_name]
        ver == IF version = None THEN module_version ELSE version
        rversion == _get_last_version(sorted(DOMAIN method_dict), ver)
    IN  IF rversion = None
        THEN [returned |-> FALSE,
              exception |-> NotAvailable(function_name, ver,
                               _get_first_available_version(sorted(DOMAIN method_dict)))]
        ELSE [returned |-> TRUE, called |-> method_dict[rversion], kwargs |-> kwargs]

\* A loop that refreshes the proxies from module._version as it was before the
\* assignment of the new version.
RefreshedWrappersStale(ws, version) ==
    [function_name \in DOMAIN _method_dicts |->
        _update_module_vc(_method_dicts[function_name], ws[function_name],
                          function_name, _version)]

\* The wrappers ws of all registered names after the loop of set_module_version.
RefreshedWrappers(ws, version) ==
    [function_name \in DOMAIN _method_dicts |->
        _update_module_vc(_method_dicts[function_name], ws[function_name],
                          function_name, version)]

-----------------------------------------------------------------------------
(* Tool metadata and the command line built from it *)

\* Python values that reach argparse and the called functions.
PyStr(s) == [py |-> "str", s |-> s]
PyInt(n) == [py |-> "int", n |-> n]
PyList(items) == [py |-> "list", items |-> items]

\* inspect._empty, and a key that is missing from an argparse kwargs dict.
Empty == [py |-> "empty"]
Absent == [py |-> "absent"]

\* Annotations: none, a plain type, or a GenericAlias such as list[str].
NoAnnotation == [kind |-> "empty"]
Plain(type) == [kind |-> "type", type |-> type]
Generic(origin, arg) == [kind |-> "GenericAlias", origin |-> origin, arg |-> arg]

Param(name, default, annotation) == [name |-> name, default |-> default, annotation |-> annotation]

NoRoutine == [kind |-> "none"]
Routine(func, params) == [kind |-> "routine", func |-> func, params |-> params]

\* The default of a flag when the parameter has an explicit default override
\* and a default in its signature: the signature's default wins.
flag_default_signature_first(param, defaults) ==
    IF param.default # Empty THEN param.default
    ELSE IF param.name \in DOMAIN defaults THEN defaults[param.name]
    ELSE Absent

\* kwargs["default"] of a parameter's flag (Absent: the key is not set).
flag_default(param, defaults) ==
    IF param.name \in DOMAIN defaults THEN defaults[param.name]
    ELSE IF param.default # Empty THEN param.default
    ELSE Absent

\* kwargs["required"] of a parameter's flag.
flag_required(param, defaults) ==
    IF param.name \in DOMAIN defaults THEN FALSE
    ELSE IF param.default # Empty THEN FALSE
    ELSE TRUE

\* The kwargs of add_argument for a parameter of the signature; error is the
\* exception raised while they are built ("" if none).
param_kwargs(param, helps, types, defaults) ==
    LET generic == param.name \notin DOMAIN types /\ param.annotation.kind = "GenericAlias"
    IN  [help     |-> IF param.name \in DOMAIN helps THEN helps[param.name] ELSE "_",
         default  |-> flag_default(param, defaults),
         required |-> flag_required(param, defaults),
         type     |-> IF param.name \in DOMAIN types THEN types[param.name]
                      ELSE IF param.annotation.kind = "empty" THEN "none"
                      ELSE IF param.annotation.kind = "GenericAlias" THEN param.annotation.arg
                      ELSE param.annotation.type,
         nargs    |-> IF generic THEN "*" ELSE "none",
         error    |-> IF generic /\ param.annotation.origin # "list"
                      THEN "Only list is supported in GenericAlias" ELSE ""]

\* The kwargs of add_argument for an output parameter of the return routine.
return_param_kwargs(param_name, helps, types, defaults) ==
    [help     |-> IF param_name \in DOMAIN helps THEN helps[param_name] ELSE "_",
     default  |-> IF param_name \in DOMAIN defaults THEN defaults[param_name] ELSE Absent,
     required |-> param_name \notin DOMAIN defaults,
     type     |-> IF param_name \in DOMAIN types THEN types[param_name] ELSE "none",
     nargs    |-> "none",
     error    |-> IF param_name \in DOMAIN types THEN "" ELSE "Exception"]

Elements(L) == {L[i] : i \in 1..Len(L)}

\* The subparser built from one tool-metadata tuple resolved at rversion: its
\* help label, its flags by parameter name, and the exceptions raised on the
\* way (an option string added twice makes argparse raise ArgumentError).
subparser(rversion, tool) ==
    LET sig_names == {tool.signature[i].name : i \in 1..Len(tool.signature)}
        ret_names == IF tool.return_routine = NoRoutine THEN {}
                     ELSE Elements(tool.return_routine.params)
        sig_kwargs(name) ==
            LET i == CHOOSE j \in 1..Len(tool.signature) : tool.signature[j].name = name
            IN  param_kwargs(tool.signature[i], tool.helps, tool.types, tool.defaults)
        arguments == [name \in sig_names \cup ret_names |->
                         IF name \in sig_names THEN sig_kwargs(name)
                         ELSE return_param_kwargs(name, tool.helps, tool.types, tool.defaults)]
    IN  [help |-> rversion,
         description |-> tool.description,
         arguments |-> arguments,
         return_routine |-> tool.return_routine,
         errors |-> ({arguments[name].error : name \in DOMAIN arguments}
                     \cup {return_param_kwargs(name, tool.helps, tool.types, tool.defaults).error :
                              name \in ret_names}
                     \cup (IF sig_names \cap ret_names # {} THEN {"ArgumentError"} ELSE {}))
                    \ {""}]

\* A grammar built from the tool versions that resolved at module._version as
\* it was when main() was entered, before the -v flags were applied.
subparsers_at_entry(version) ==
    LET exposed == {func_name \in DOMAIN _tool_dicts :
                       _get_last_version(sorted(DOMAIN _tool_dicts[func_name]), _version) # None}
    IN  [func_name \in exposed |->
            LET rversion == _get_last_version(sorted(DOMAIN _tool_dicts[func_name]), _version)
            IN  subparser(rversion, _tool_dicts[func_name][rversion])]

\* The loop of module_main over _tool_dicts, version being module._version when
\* the loop runs: func_name -> subparser, for the names with a version resolved.
subparsers_of(version) ==
    LET exposed == {func_name \in DOMAIN _tool_dicts :
                       _get_last_version(sorted(DOMAIN _tool_dicts[func_name]), version) # None}
    IN  [func_name \in exposed |->
            LET rversion == _get_last_version(sorted(DOMAIN _tool_dicts[func_name]), version)
            IN  subparser(rversion, _tool_dicts[func_name][rversion])]

Dash == 45
dash_v == <<Dash, 118>>
dash_h == <<Dash, 104>>

\* The while loop of module_main over the leading -v and -h flags.  i is the
\* Python index into sys.argv (argv[i + 1] here); versions collects the
\* arguments of the set_version calls made so far.
RECURSIVE leading_flags(_, _, _, _)
leading_flags(argv, i, display_help, versions) ==
    IF i < Len(argv) /\ argv[i + 1] = dash_v
    THEN IF i + 1 < Len(argv)
         THEN leading_flags(argv, i + 2, display_help, Append(versions, argv[i + 2]))
         ELSE [i |-> i, display_help |-> display_help, versions |-> versions,
               error |-> "IndexError"]
    ELSE IF i < Len(argv) /\ argv[i + 1] = dash_h
    THEN leading_flags(argv, i + 1, TRUE, versions)
    ELSE [i |-> i, display_help |-> display_help \/ i = Len(argv), versions |-> versions,
          error |-> ""]

\* The wrappers after set_version was called with each version in turn.
RECURSIVE after_set_versions(_, _)
after_set_versions(ws, versions) ==
    IF versions = <<>> THEN ws
    ELSE after_set_versions(RefreshedWrappers(ws, versions[1]), Tail(versions))

\* type(string) as argparse applies it: [ok, value].
convert(type, string) ==
    IF type = "int"
    THEN IF IntParses(string) THEN [ok |-> TRUE, value |-> PyInt(int(string))]
         ELSE [ok |-> FALSE, value |-> Absent]
    ELSE [ok |-> TRUE, value |-> PyStr(string)]

\* The tokens up to the next one that starts with a dash.
RECURSIVE values_run(_)
values_run(tokens) ==
    IF tokens = <<>> \/ tokens[1][1] = Dash THEN <<>>
    ELSE <<tokens[1]>> \o values_run(Tail(tokens))

\* What module_main requires of a subparser's parse of its tokens: each flag
\* -<name> of the subparser takes one value (any number with nargs "*")
\* converted by its type; an unknown flag, a wrong number of values, a failed
\* conversion or a missing required flag is a usage error; a flag that is not
\* given takes its default (converted when it is a string) if it has one.
RECURSIVE parse_flags(_, _, _)
parse_flags(tokens, arguments, namespace) ==
    IF tokens = <<>>
    THEN LET missing == {name \in DOMAIN arguments :
                            arguments[name].required /\ name \notin DOMAIN namespace}
             defaulted == {name \in DOMAIN arguments :
                              name \notin DOMAIN namespace /\ arguments[name].default # Absent}
             default_of(name) ==
                 IF arguments[name].default.py = "str"
                 THEN convert(arguments[name].type, arguments[name].default.s)
                 ELSE [ok |-> TRUE, value |-> arguments[name].default]
         IN  IF missing # {} \/ \E name \in defaulted : ~default_of(name).ok
             THEN [ok |-> FALSE, namespace |-> EmptyDict]
             ELSE [ok |-> TRUE,
                   namespace |-> [name \in DOMAIN namespace \cup defaulted |->
                                     IF name \in DOMAIN namespace THEN namespace[name]
                                     ELSE default_of(name).value]]
    ELSE LET name == Tail(tokens[1])
             strings == values_run(Tail(tokens))
             rest == SubSeq(tokens, Len(strings) + 2, Len(tokens))
         IN  IF tokens[1][1] # Dash \/ name \notin DOMAIN arguments
             THEN [ok |-> FALSE, namespace |-> EmptyDict]
             ELSE LET kwargs == arguments[name]
                      converted == [k \in 1..Len(strings) |-> convert(kwargs.type, strings[k])]
                  IN  IF \/ \E k \in 1..Len(strings) : ~converted[k].ok
                         \/ kwargs.nargs = "none" /\ Len(strings) # 1
                      THEN [ok |-> FALSE, namespace |-> EmptyDict]
                      ELSE parse_flags(rest, arguments,
                              Put(namespace, name,
                                  IF kwargs.nargs = "*"
                                  THEN PyList([k \in 1..Len(strings) |-> converted[k].value])
                                  ELSE converted[1].value))

\* _parser.parse_args(sys.argv[i:]) for a non-empty argument list: the first
\* token names the subcommand, the rest are its flags.
parse_args(subparsers, args) ==
    IF args[1] \notin DOMAIN subparsers
    THEN [ok |-> FALSE, _subparser_name |-> <<>>, namespace |-> EmptyDict]
    ELSE LET parsed == parse_flags(Tail(args), subparsers[args[1]].arguments, EmptyDict)
         IN  [ok |-> parsed.ok, _subparser_name |-> args[1], namespace |-> parsed.namespace]

\* Forwards every parsed value to the business function.
method_args_unsplit(namespace, return_params) == namespace

\* {k:v for k, v in vars(args).items() if k not in return_params}
method_args_of(namespace, return_params) ==
    [k \in DOMAIN namespace \ return_params |-> namespace[k]]

\* {k:v for k, v in vars(args).items() if k in return_params}
return_func_args_of(namespace, return_params) ==
    [k \in DOMAIN namespace \cap return_params |-> namespace[k]]

\* What the implementation returns when it is called with kwargs.
ReturnValue(func, kwargs) == [py |-> "result", of |-> func.__name__, kwargs |-> kwargs]

\* The calls module_main makes after a successful parse, and how it ends.
\* version and ws are module._version and the proxies at that time;
\* impl_raises tells whether the implementation that runs raises.  A call is
\* recorded with its target, its keyword arguments and what it returned
\* (Absent when it raised).
dispatch(version, ws, subparsers, parsed, impl_raises) ==
    LET name == parsed._subparser_name
        routine == subparsers[name].return_routine
        return_params == IF routine = NoRoutine THEN {} ELSE Elements(routine.params)
        method_args == method_args_of(parsed.namespace, return_params)
        result == _run_method(version, name, method_args, None)
        proxy_call(value) == [target |-> "proxy", function_name |-> name,
                              kwargs |-> method_args, value |-> value]
    IN  IF name \notin DOMAIN ws
        THEN [calls |-> <<>>, outcome |-> "AttributeError"]
        ELSE IF ~result.returned
        THEN [calls |-> <<proxy_call(Absent)>>, outcome |-> "Exception"]
        ELSE IF impl_raises
        THEN [calls |-> <<proxy_call(Absent)>>, outcome |-> "raised by the implementation"]
        ELSE IF routine = NoRoutine
        THEN [calls |-> <<proxy_call(ReturnValue(result.called, method_args))>>,
              outcome |-> "done"]
        ELSE [calls |-> <<proxy_call(ReturnValue(result.called, method_args)),
                          [target |-> "return_routine", function_name |-> routine.func,
                           result |-> ReturnValue(result.called, method_args),
                           kwargs |-> return_func_args_of(parsed.namespace, return_params),
                           value |-> None]>>,
              outcome |-> "done"]

-----------------------------------------------------------------------------
(* The module's tools and the command lines main() is run with *)

h == <<104>>
nosuch == <<107>>

\* Parameter names of the module's tools.
srcfile == <<115, 114, 99, 102, 105, 108, 101>>
dstfile == <<100, 115, 116, 102, 105, 108, 101>>
count == <<99, 111, 117, 110, 116>>
tag == <<116, 97, 103>>
mode == <<109, 111, 100, 101>>
outfile == <<111, 117, 116, 102, 105, 108, 101>>
level == <<108, 101, 118, 101, 108>>

\* Strings given on the command line and as defaults.
str_x == <<120>>
str_y == <<121>>
seven == <<55>>
five == <<53>>

Dict1(k1, v1) == Put(EmptyDict, k1, v1)
Dict2(k1, v1, k2, v2) == Put(Dict1(k1, v1), k2, v2)

\* @vt(description="File copy method", helps=dict(srcfile=..., dstfile=...)) on
\* a function (srcfile:str, dstfile:str), as in example/pm.py.
CopyTool ==
    [signature |-> <<Param(srcfile, Empty, Plain("str")), Param(dstfile, Empty, Plain("str"))>>,
     description |-> "File copy method",
     helps |-> Dict2(srcfile, "Input source file", dstfile, "Output source file"),
     types |-> EmptyDict,
     defaults |-> EmptyDict,
     return_routine |-> NoRoutine]

\* A tool (srcfile:str, count:int=1, tag:list[str], mode="x") with
\* default overrides for tag and mode and a return routine with the output
\* parameters outfile (required) and level (default "5", an int).
ReportTool ==
    [signature |-> <<Param(srcfile, Empty, Plain("str")),
                     Param(count, PyInt(1), Plain("int")),
                     Param(tag, Empty, Generic("list", "str")),
                     Param(mode, PyStr(str_x), NoAnnotation)>>,
     description |-> "Report",
     helps |-> Dict1(srcfile, "Input source file"),
     types |-> Dict2(outfile, "str", level, "int"),
     defaults |-> Put(Dict2(tag, PyList(<<>>), mode, PyStr(str_y)), level, PyStr(five)),
     return_routine |-> Routine("write_result", <<outfile, level>>)]

\* A tool whose return routine has an output parameter without a type.
UntypedOutputTool ==
    [signature |-> <<Param(srcfile, Empty, Plain("str"))>>,
     description |-> "",
     helps |-> EmptyDict,
     types |-> EmptyDict,
     defaults |-> EmptyDict,
     return_routine |-> Routine("write_result", <<outfile>>)]

\* The functions the module decorates with @vc when it offers tools.
ToolModuleFuncs ==
    { Func(f, Ver(20200601), 1), Func(f, Ver(20200721), 1), Func(g, Ver(20200801), 1) }

\* The @vt decorations of the module: the function and the decorator's
\* arguments with inspect.signature(func).  _h_20200701 is not under @vc.
ToolDecls ==
    { [func |-> Func(f, Ver(20200601), 1), tool |-> CopyTool],
      [func |-> Func(f, Ver(20200721), 1), tool |-> ReportTool],
      [func |-> Func(g, Ver(20200801), 1), tool |-> CopyTool],
      [func |-> Func(g, Ver(20200801), 1), tool |-> UntypedOutputTool],
      [func |-> Func(h, Ver(20200701), 1), tool |-> CopyTool] }

ToolVersions == { Ver(20200615) }

prog == <<112, 109>>
Flag(name) == <<Dash>> \o name

CopyCommand(name) == <<name, Flag(srcfile), str_x, Flag(dstfile), str_y>>

\* The command lines main() is run with: sys.argv, the program name first.
Argvs ==
    { <<prog>>,
      <<prog, dash_h>>,
      <<prog, dash_v>>,
      <<prog, dash_v, Ver(20200615), dash_h>>,
      <<prog, dash_v, Ver(20200801), dash_v, Ver(20200501)>>,
      <<prog>> \o CopyCommand(f),
      <<prog>> \o CopyCommand(g),
      <<prog>> \o CopyCommand(h),
      <<prog, nosuch>>,
      <<prog, f, Flag(srcfile), str_x>>,
      <<prog, f, Flag(srcfile), str_x, Flag(outfile), str_y>>,
      <<prog, f, Flag(srcfile), str_x, Flag(count), seven, Flag(tag), str_x, str_y,
              Flag(mode), str_x, Flag(outfile), str_y, Flag(level), seven>>,
      <<prog, f, Flag(srcfile), str_x, Flag(count), str_x, Flag(outfile), str_y>>,
      <<prog, dash_v, Ver(20200615)>> \o CopyCommand(f),
      <<prog, dash_v, Ver(20200615)>> \o CopyCommand(g),
      <<prog, dash_v, Ver(20200801), dash_v, Ver(20200501)>> \o CopyCommand(f),
      <<prog, dash_h, dash_v, Ver(20200801)>> \o CopyCommand(f) }

-----------------------------------------------------------------------------
(* Operations *)

\* register(module): empty tables, the default version, no proxy yet.
Init ==
    /\ _method_dicts = EmptyDict
    /\ _tool_dicts = EmptyDict
    /\ _version = Today
    /\ wrappers = EmptyDict
    /\ lastOp = [op |-> "register"]
    /\ resolveIn = <<>>
    /\ resolveOut = [done |-> FALSE]

\* @vc on func (_module_vc).
vc(func) ==
    IF rindex(func.__name__) = 0
    THEN /\ lastOp' = [op |-> "vc", func |-> func, error |-> "ValueError"]
         /\ UNCHANGED <<_method_dicts, _tool_dicts, _version, wrappers, resolveIn, resolveOut>>
    ELSE LET function_name == function_name_of(func)
             version == version_of(func)
             old == IF function_name \in DOMAIN _method_dicts
                    THEN _method_dicts[function_name] ELSE EmptyDict
             method_dict == Put(old, version, func)
             wraps == [__name__ |-> func.__name__, __doc__ |-> func.__doc__]
         IN  /\ _method_dicts' = Put(_method_dicts, function_name, method_dict)
             /\ wrappers' = Put(wrappers, function_name,
                                _update_module_vc(method_dict, wraps, function_name, _version))
             /\ lastOp' = [op |-> "vc", func |-> func, error |-> ""]
             /\ UNCHANGED <<_tool_dicts, _version, resolveIn, resolveOut>>

\* module.set_version(version) (set_module_version).
set_version(version) ==
    /\ _version' = version
    /\ wrappers' = RefreshedWrappers(wrappers, version)
    /\ lastOp' = [op |-> "set_version", version |-> version,
                  again |-> (lastOp.op = "set_version" /\ lastOp.version = version)]
    /\ UNCHANGED <<_method_dicts, _tool_dicts, resolveIn, resolveOut>>

\* module.<function_name>(version=version), version None when omitted.
Call(function_name, version) ==
    /\ function_name \in DOMAIN wrappers
    /\ lastOp' = [op |-> "call", function_name |-> function_name, version |-> version,
                  result |-> _run_method(_version, function_name, EmptyDict, version)]
    /\ UNCHANGED <<_method_dicts, _tool_dicts, _version, wrappers, resolveIn, resolveOut>>

\* @vt(...) on func (_module_vt and its inner).
vt(func, tool) ==
    IF rindex(func.__name__) = 0
    THEN /\ lastOp' = [op |-> "vt", func |-> func, error |-> "ValueError"]
         /\ UNCHANGED <<_method_dicts, _tool_dicts, _version, wrappers, resolveIn, resolveOut>>
    ELSE LET function_name == function_name_of(func)
             version == version_of(func)
             old == IF function_name \in DOMAIN _tool_dicts
                    THEN _tool_dicts[function_name] ELSE EmptyDict
         IN  /\ _tool_dicts' = Put(_tool_dicts, function_name, Put(old, version, tool))
             /\ lastOp' = [op |-> "vt", func |-> func, error |-> ""]
             /\ UNCHANGED <<_method_dicts, _version, wrappers, resolveIn, resolveOut>>

\* module_main run with sys.argv = argv: the active version and the proxies
\* it leaves, the grammar it built, the parsed values, the calls it made and
\* how it ended.  impl_raises: whether the implementation raises, should one
\* be called.
module_main(argv, impl_raises) ==
    LET lead == leading_flags(argv, 1, FALSE, <<>>)
        version == IF lead.versions = <<>> THEN _version
                   ELSE lead.versions[Len(lead.versions)]
        ws == after_set_versions(wrappers, lead.versions)
    IN  IF lead.error # ""
        THEN [version |-> version, wrappers |-> ws, subparsers |-> EmptyDict,
              _subparser_name |-> <<>>, namespace |-> EmptyDict, calls |-> <<>>, outcome |-> lead.error]
        ELSE
    LET subparsers == subparsers_of(version)
    IN  IF \E func_name \in DOMAIN subparsers : subparsers[func_name].errors # {}
        THEN [version |-> version, wrappers |-> ws, subparsers |-> EmptyDict,
              _subparser_name |-> <<>>, namespace |-> EmptyDict, calls |-> <<>>, outcome |-> "error building the parser"]
        ELSE IF lead.display_help
        THEN [version |-> version, wrappers |-> ws, subparsers |-> subparsers,
              _subparser_name |-> <<>>, namespace |-> EmptyDict, calls |-> <<>>, outcome |-> "help"]
        ELSE
    LET parsed == parse_args(subparsers, SubSeq(argv, lead.i + 1, Len(argv)))
    IN  IF ~parsed.ok
        THEN [version |-> version, wrappers |-> ws, subparsers |-> subparsers,
              _subparser_name |-> <<>>, namespace |-> EmptyDict, calls |-> <<>>, outcome |-> "usage error"]
        ELSE
    LET dispatched == dispatch(version, ws, subparsers, parsed, impl_raises)
    IN  [version |-> version, wrappers |-> ws, subparsers |-> subparsers,
         _subparser_name |-> parsed._subparser_name,
         namespace |-> parsed.namespace, calls |-> dispatched.calls,
         outcome |-> dispatched.outcome]

\* module.main() with sys.argv = argv.
main(argv, impl_raises) ==
    \E run \in {module_main(argv, impl_raises)} :
        /\ _version' = run.version
        /\ wrappers' = run.wrappers
        /\ lastOp' = [op |-> "main", argv |-> argv, subparsers |-> run.subparsers,
                      _subparser_name |-> run._subparser_name,
                      namespace |-> run.namespace, calls |-> run.calls,
                      outcome |-> run.outcome]
        /\ UNCHANGED <<_method_dicts, _tool_dicts, resolveIn, resolveOut>>

Next ==
    \/ \E func \in ModuleFuncs : vc(func)
    \/ \E version \in Versions : set_version(version)
    \/ \E function_name \in {f, g}, version \in Versions \cup {None} : Call(function_name, version)

Spec == Init /\ [][Next]_vars

\* The module with tools, run from the command line.
NextMain ==
    \/ \E func \in ToolModuleFuncs : vc(func)
    \/ \E decl \in ToolDecls : vt(decl.func, decl.tool)
    \/ \E version \in ToolVersions : set_version(version)
    \/ \E argv \in Argvs, impl_raises \in BOOLEAN : main(argv, impl_raises)

SpecMain == Init /\ [][NextMain]_vars

-----------------------------------------------------------------------------
(* _get_last_version called directly on ascending lists of version keys *)

MaxLen == 3

KeyUniverse ==
    { Ver(20191231), Ver(20200501), Ver(20200601), Ver(20200615),
      Ver(20200721), Ver(20200801), Ver(20210101) }

\* v1 <= v2 in the (year, month, day) order of _compare_version.
VersionLeq(v1, v2) == _compare_version(v1, v2).value <= 0

\* The ascending list of a set of keys, ordered by _compare_version.
RECURSIVE Ascending(_)
Ascending(S) ==
    IF S = {} THEN <<>>
    ELSE LET m == CHOOSE x \in S : \A y \in S : VersionLeq(x, y)
         IN  <<m>> \o Ascending(S \ {m})

ResolveInputs ==
    { <<Ascending(S), V>> : S \in {T \in SUBSET KeyUniverse : Cardinality(T) <= MaxLen},
                            V \in KeyUniverse }

InitResolve ==
    /\ _method_dicts = EmptyDict
    /\ _tool_dicts = EmptyDict
    /\ _version = Today
    /\ wrappers = EmptyDict
    /\ lastOp = [op |-> "register"]
    /\ resolveIn \in ResolveInputs
    /\ resolveOut = [done |-> FALSE]

Resolve ==
    /\ ~resolveOut.done
    /\ resolveOut' = [done |-> TRUE, value |-> _get_last_version(resolveIn[1], resolveIn[2])]
    /\ UNCHANGED <<_method_dicts, _tool_dicts, _version, wrappers, lastOp, resolveIn>>

SpecResolve == InitResolve /\ [][Resolve]_vars

-----------------------------------------------------------------------------
(* Properties *)

\* An 8-character string of decimal digits.
WellFormed(v) == Len(v) = 8 /\ \A i \in 1..8 : IsDigit(v[i])

\* The version keys registered under a function name.
Keys(function_name) == DOMAIN _method_dicts[function_name]

AllWellFormed(S) == \A k \in S : WellFormed(k)

\* e is the greatest element of S that is <= V in the (year, month, day) order.
IsGreatestLeq(e, S, V) ==
    /\ e \in S
    /\ VersionLeq(e, V)
    /\ \A k \in S : VersionLeq(k, V) => VersionLeq(k, e)

\* e is the earliest element of S in the (year, month, day) order.
IsEarliest(e, S) == e \in S /\ \A k \in S : VersionLeq(e, k)

\* C1: a call of a registered function without a version argument invokes the
\* implementation registered under the greatest version key of the name that
\* is <= the module's active version (keys and active version being dates).
C1_DispatchAtActiveVersion ==
    (/\ lastOp.op = "call"
     /\ lastOp.version = None
     /\ AllWellFormed(Keys(lastOp.function_name))
     /\ WellFormed(_version))
    => \A e \in Keys(lastOp.function_name) :
          IsGreatestLeq(e, Keys(lastOp.function_name), _version)
          => /\ lastOp.result.returned
             /\ lastOp.result.called = _method_dicts[lastOp.function_name][e]

\* The example of the module's documentation: versions 20200601 and 20200721,
\* active version 20200801, the call runs _f_20200721.
C1_Witness ==
    /\ lastOp.op = "call"
    /\ lastOp.version = None
    /\ lastOp.function_name = f
    /\ Keys(f) = {Ver(20200601), Ver(20200721)}
    /\ _version = Ver(20200801)
    /\ lastOp.result.returned
    /\ lastOp.result.called = Func(f, Ver(20200721), 1)

\* The versions the module can have as its active version.
ActiveVersions == Versions \cup {Today}

\* C2: a call with an explicit version= V invokes the implementation registered
\* under the greatest key <= V, and its outcome is the same under every active
\* version the module could have.
C2_OverrideIgnoresActiveVersion ==
    (lastOp.op = "call" /\ lastOp.version # None)
    => /\ \A av \in ActiveVersions :
             _run_method(av, lastOp.function_name, EmptyDict, lastOp.version) = lastOp.result
       /\ (AllWellFormed(Keys(lastOp.function_name)) /\ WellFormed(lastOp.version))
          => \A e \in Keys(lastOp.function_name) :
                IsGreatestLeq(e, Keys(lastOp.function_name), lastOp.version)
                => /\ lastOp.result.returned
                   /\ lastOp.result.called = _method_dicts[lastOp.function_name][e]

\* version="20200615" runs _f_20200601 although the active version, 20200801,
\* resolves to _f_20200721.
C2_Witness ==
    /\ lastOp.op = "call"
    /\ lastOp.function_name = f
    /\ lastOp.version = Ver(20200615)
    /\ Keys(f) = {Ver(20200601), Ver(20200721)}
    /\ _version = Ver(20200801)
    /\ lastOp.result.returned
    /\ lastOp.result.called.__name__ = DefName(f, Ver(20200601))

\* The version a call resolves at: the version argument, else the active one.
EffectiveVersion == IF lastOp.version = None THEN _version ELSE lastOp.version

\* C3: a call whose effective version is smaller than every registered version
\* of the name (all of them dates) raises, with the requested version and the
\* earliest registered version in the error, and invokes nothing.
C3_TooEarlyRaises ==
    (/\ lastOp.op = "call"
     /\ AllWellFormed(Keys(lastOp.function_name))
     /\ WellFormed(EffectiveVersion)
     /\ \A k \in Keys(lastOp.function_name) : ~VersionLeq(k, EffectiveVersion))
    => /\ ~lastOp.result.returned
       /\ lastOp.result.exception.function_name = lastOp.function_name
       /\ lastOp.result.exception.version = EffectiveVersion
       /\ IsEarliest(lastOp.result.exception.first, Keys(lastOp.function_name))

\* version="20200501" with 20200601 and 20200721 registered.
C3_Witness ==
    /\ lastOp.op = "call"
    /\ lastOp.function_name = f
    /\ lastOp.version = Ver(20200501)
    /\ Keys(f) = {Ver(20200601), Ver(20200721)}
    /\ ~lastOp.result.returned
    /\ lastOp.result.exception.first = Ver(20200601)

\* C4: on an ascending list L of distinct 8-digit keys, _get_last_version(L, V)
\* is the greatest element of L that is <= V in the (year, month, day) order,
\* and it is None exactly when V is smaller than every element of L.
C4_ResolverIsPredecessor ==
    resolveOut.done
    => LET L == resolveIn[1]
           V == resolveIn[2]
       IN  /\ (resolveOut.value = None) <=> (\A k \in Elements(L) : ~VersionLeq(k, V))
           /\ resolveOut.value # None => IsGreatestLeq(resolveOut.value, Elements(L), V)

\* A three-element list whose middle element is the answer, the requested
\* version being itself an element.
C4_Witness ==
    /\ resolveOut.done
    /\ resolveIn = << <<Ver(20191231), Ver(20200601), Ver(20200721)>>, Ver(20200601) >>
    /\ resolveOut.value = Ver(20200601)

\* The documentation _update_module_vc gives the proxy of a name at a version.
ResolvedDoc(function_name, version) ==
    LET available_versions == sorted(Keys(function_name))
        rversion == _get_last_version(available_versions, version)
    IN  IF rversion # None THEN _method_dicts[function_name][rversion].__doc__
        ELSE NotAvailable(function_name, version, available_versions[1])

\* C5: in every state, each registered name has a proxy whose name is the base
\* name and whose documentation is that of the implementation resolving at the
\* active version or, when none resolves, the notice naming the active version
\* and the earliest registered version.
C5_ProxyMetadataCurrent ==
    \A function_name \in DOMAIN _method_dicts :
        /\ function_name \in DOMAIN wrappers
        /\ wrappers[function_name].__name__ = function_name
        /\ wrappers[function_name].__doc__ = ResolvedDoc(function_name, _version)
        /\ (AllWellFormed(Keys(function_name)) /\ WellFormed(_version))
           => \/ \E e \in Keys(function_name) :
                    /\ IsGreatestLeq(e, Keys(function_name), _version)
                    /\ wrappers[function_name].__doc__ = _method_dicts[function_name][e].__doc__
              \/ /\ \A k \in Keys(function_name) : ~VersionLeq(k, _version)
                 /\ wrappers[function_name].__doc__.kind = "not available"
                 /\ wrappers[function_name].__doc__.version = _version
                 /\ IsEarliest(wrappers[function_name].__doc__.first, Keys(function_name))

\* After set_version("20200615"): f documents its redefined 20200601 version,
\* g (first version 20200801) documents that it is not available.
C5_Witness ==
    /\ lastOp.op = "set_version"
    /\ _version = Ver(20200615)
    /\ DOMAIN _method_dicts = {f, g}
    /\ Keys(f) = {Ver(20200601), Ver(20200721)}
    /\ Keys(g) = {Ver(20200801)}
    /\ wrappers[f].__doc__ = Func(f, Ver(20200601), 2).__doc__
    /\ wrappers[g].__doc__ = NotAvailable(g, Ver(20200615), Ver(20200801))

\* C6: a set_version(X) that directly follows a set_version(X) changes neither
\* the active version nor any proxy's name or documentation.
C6_SetVersionIdempotent ==
    [][(lastOp'.op = "set_version" /\ lastOp'.again)
       => (_version' = _version /\ wrappers' = wrappers)]_vars

\* set_version("20200501") called twice in a row with f and g registered.
C6_Witness ==
    /\ lastOp.op = "set_version"
    /\ lastOp.again
    /\ lastOp.version = Ver(20200501)
    /\ DOMAIN wrappers = {f, g}
    /\ wrappers[f].__doc__.kind = "not available"

\* Whether a version suffix parses as a version key: 8 characters whose
\* year, month and day fields are integers.
ParsesAsVersionKey(v) == Len(v) = 8 /\ ~_compare_version(v, v).raised

\* C7: registering an implementation whose version suffix does not parse as a
\* version key fails, and the suffix is not inserted into the registry.
C7_MalformedVersionRejected ==
    (lastOp.op = "vc" /\ ~ParsesAsVersionKey(version_of(lastOp.func)))
    => /\ lastOp.error # ""
       /\ \/ function_name_of(lastOp.func) \notin DOMAIN _method_dicts
          \/ version_of(lastOp.func) \notin Keys(function_name_of(lastOp.func))

\* The versions a tool name has metadata for.
ToolKeys(func_name) == DOMAIN _tool_dicts[func_name]

\* main() got as far as building the whole grammar.
GrammarBuilt ==
    lastOp.op = "main" /\ lastOp.outcome \notin {"IndexError", "error building the parser"}

\* The version of the last -v flag before the subcommand, or None.
LastLeadingVersion(argv) ==
    LET versions == leading_flags(argv, 1, FALSE, <<>>).versions
    IN  IF versions = <<>> THEN None ELSE versions[Len(versions)]

\* C8: the subcommands main() builds are exactly the tool names with metadata
\* at a version <= the active version as it is after the leading -v flags, each
\* built from the metadata of the greatest such version; a tool name with no
\* such version is left out and is never the cause of an error.
C8_SubcommandsAtActiveVersion ==
    (lastOp.op = "main" /\ lastOp.outcome # "IndexError" /\ WellFormed(_version)
       /\ \A func_name \in DOMAIN _tool_dicts : AllWellFormed(ToolKeys(func_name)))
    => /\ LastLeadingVersion(lastOp.argv) # None => _version = LastLeadingVersion(lastOp.argv)
       /\ GrammarBuilt
          => /\ DOMAIN lastOp.subparsers =
                   {func_name \in DOMAIN _tool_dicts :
                       \E v \in ToolKeys(func_name) : VersionLeq(v, _version)}
             /\ \A func_name \in DOMAIN lastOp.subparsers :
                   \E e \in ToolKeys(func_name) :
                      /\ IsGreatestLeq(e, ToolKeys(func_name), _version)
                      /\ lastOp.subparsers[func_name] = subparser(e, _tool_dicts[func_name][e])
       /\ lastOp.outcome = "error building the parser"
          => \E func_name \in DOMAIN _tool_dicts : \E e \in ToolKeys(func_name) :
                /\ IsGreatestLeq(e, ToolKeys(func_name), _version)
                /\ subparser(e, _tool_dicts[func_name][e]).errors # {}

\* "-v 20200615 -h" with tools f (20200601 and 20200721), g (20200801) and
\* h (20200701): only f is a subcommand, built from its 20200601 metadata.
C8_Witness ==
    /\ lastOp.op = "main"
    /\ lastOp.argv = <<prog, dash_v, Ver(20200615), dash_h>>
    /\ DOMAIN _tool_dicts = {f, g, h}
    /\ ToolKeys(f) = {Ver(20200601), Ver(20200721)}
    /\ _version = Ver(20200615)
    /\ DOMAIN lastOp.subparsers = {f}
    /\ lastOp.subparsers[f].help = Ver(20200601)
    /\ DOMAIN lastOp.subparsers[f].arguments = {srcfile, dstfile}

\* C9: the flag of each parameter of an exposed tool is optional if the tool
\* declares a default override for the parameter or the signature declares a
\* default, and required otherwise; with an override the flag's default is the
\* override's value, also when the signature has a default of its own.
C9_RequiredUnlessDefault ==
    GrammarBuilt
    => \A func_name \in DOMAIN lastOp.subparsers :
          LET tool == _tool_dicts[func_name][lastOp.subparsers[func_name].help]
          IN  \A i \in 1..Len(tool.signature) :
                 LET param == tool.signature[i]
                     overridden == param.name \in DOMAIN tool.defaults
                     declared == param.default # Empty
                 IN  /\ param.name \in DOMAIN lastOp.subparsers[func_name].arguments
                     /\ LET kwargs == lastOp.subparsers[func_name].arguments[param.name]
                        IN  /\ kwargs.required = ~(overridden \/ declared)
                            /\ overridden => kwargs.default = tool.defaults[param.name]
                            /\ (declared /\ ~overridden) => kwargs.default = param.default
                            /\ kwargs.required => kwargs.default = Absent

\* The report tool run with -srcfile and -outfile only: count takes the
\* default of the signature, mode the override (not the signature's "x").
C9_Witness ==
    /\ lastOp.op = "main"
    /\ lastOp.outcome = "done"
    /\ lastOp._subparser_name = f
    /\ lastOp.subparsers[f].help = Ver(20200721)
    /\ lastOp.subparsers[f].arguments[srcfile].required
    /\ ~lastOp.subparsers[f].arguments[mode].required
    /\ lastOp.subparsers[f].arguments[mode].default = PyStr(str_y)
    /\ lastOp.namespace[mode] = PyStr(str_y)
    /\ lastOp.namespace[count] = PyInt(1)

\* main() parsed a subcommand successfully.
Parsed ==
    lastOp.op = "main"
    /\ lastOp.outcome \in {"done", "Exception", "raised by the implementation", "AttributeError"}

\* The output-destination parameters of the subcommand that ran.
OutputParams ==
    LET routine == lastOp.subparsers[lastOp._subparser_name].return_routine
    IN  IF routine = NoRoutine THEN {} ELSE Elements(routine.params)

Restrict(dict, S) == [key \in DOMAIN dict \cap S |-> dict[key]]

C11_ToolVersionIsImplementationVersion ==
    GrammarBuilt
    => /\ \A func_name \in DOMAIN lastOp.subparsers :
             /\ func_name \in DOMAIN _method_dicts
             /\ IsGreatestLeq(lastOp.subparsers[func_name].help, Keys(func_name), _version)
       /\ lastOp.outcome = "done"
          => lastOp.calls[1].value.of =
                DefName(lastOp._subparser_name, lastOp.subparsers[lastOp._subparser_name].help)

====
